---- MODULE Spec2Model ----
(***************************************************************************)
(* Model of producer.py: the field coercions (clean_string,                *)
(* clean_numeric, parse_vehicle_location), the record normalizer           *)
(* (clean_row), the validity gate (is_valid_row) and the publishing loop   *)
(* (run_producer) with its sink calls, prints and exception handlers.      *)
(*                                                                         *)
(* Text is a sequence of one-character strings.  An optional value is a    *)
(* sequence of length at most one: None is <<>>, Some(x) is <<x>>.         *)
(* A call that may raise yields Return(v) or Raise(exceptionName).         *)
(***************************************************************************)
EXTENDS Integers, Sequences, FiniteSets, TLC

VARIABLES source, pc, pos, count, skipped, calls, out, exc,
          numArg, numRes, rowArg, rowRes

vars == <<source, pc, pos, count, skipped, calls, out, exc,
          numArg, numRes, rowArg, rowRes>>

pipeVars == <<source, pc, pos, count, skipped, calls, out, exc>>

(* -------------------------- bounds ------------------------------------- *)
\* longest source (number of rows) the pipeline is run over
MaxRows == 3
\* longest raw text handed to clean_numeric
MaxNumLen == 3
\* most fragments a raw CAFV text is assembled from
MaxParts == 3

(* -------------------------- optional values and outcomes --------------- *)
None == << >>

Some(x) == <<x>>

IsNone(o) == o = << >>

Val(o) == o[1]

Return(v) == [ok |-> TRUE, val |-> v]

Raise(e) == [ok |-> FALSE, exc |-> e]

(* -------------------------- text helpers ------------------------------- *)
\* characters str.strip() removes (the ASCII ones that occur in the inputs)
Whitespace == {" ", "\t", "\n", "\r"}

Digits == {"0", "1", "2", "3", "4", "5", "6", "7", "8", "9"}

DigitVal(c) ==
    CASE c = "0" -> 0 [] c = "1" -> 1 [] c = "2" -> 2 [] c = "3" -> 3
      [] c = "4" -> 4 [] c = "5" -> 5 [] c = "6" -> 6 [] c = "7" -> 7
      [] c = "8" -> 8 [] c = "9" -> 9

RECURSIVE lstrip(_)
lstrip(s) ==
    IF s # << >> /\ Head(s) \in Whitespace THEN lstrip(Tail(s)) ELSE s

RECURSIVE rstrip(_)
rstrip(s) ==
    IF s # << >> /\ s[Len(s)] \in Whitespace
    THEN rstrip(SubSeq(s, 1, Len(s) - 1))
    ELSE s

\* str.strip()
strip(s) == rstrip(lstrip(s))

\* `sub in s` for Python strings
Contains(s, sub) ==
    \E i \in 1..(Len(s) - Len(sub) + 1) :
        SubSeq(s, i, i + Len(sub) - 1) = sub

\* s.startswith(p)
StartsWith(s, p) == Len(s) >= Len(p) /\ SubSeq(s, 1, Len(p)) = p

\* str.lower() on the letters that spell inf, infinity and nan
LowerChar(c) ==
    CASE c = "I" -> "i" [] c = "N" -> "n" [] c = "F" -> "f"
      [] c = "A" -> "a" [] c = "T" -> "t" [] c = "Y" -> "y"
      [] OTHER -> c

Lower(s) == [i \in 1..Len(s) |-> LowerChar(s[i])]

(* -------------------------- clean_string ------------------------------- *)
\* value is None or Some(text); the result is None or Some(stripped text)
clean_string(value) ==
    IF IsNone(value) \/ strip(Val(value)) = << >>
    THEN None
    ELSE Some(strip(Val(value)))

(* -------------------------- int() and float() -------------------------- *)
\* digit (["_"] digit)* : the digit part of a Python numeric literal
DigitPart(b) ==
    /\ b # << >>
    /\ b[1] \in Digits
    /\ b[Len(b)] \in Digits
    /\ \A i \in 1..Len(b) : b[i] \in Digits \cup {"_"}
    /\ \A i \in 1..(Len(b) - 1) : ~(b[i] = "_" /\ b[i + 1] = "_")

RECURSIVE DigitsValue(_, _)
DigitsValue(b, acc) ==
    IF b = << >> THEN acc
    ELSE IF Head(b) = "_" THEN DigitsValue(Tail(b), acc)
    ELSE DigitsValue(Tail(b), 10 * acc + DigitVal(Head(b)))

HasSign(t) == t # << >> /\ t[1] \in {"+", "-"}

Unsigned(t) == IF HasSign(t) THEN Tail(t) ELSE t

Negative(t) == t # << >> /\ t[1] = "-"

Signed(neg, m) == IF neg THEN 0 - m ELSE m

\* int() of a stripped text t
IntOfStripped(t) ==
    IF DigitPart(Unsigned(t))
    THEN Some(Signed(Negative(t), DigitsValue(Unsigned(t), 0)))
    ELSE None

\* int(text): Some(n), or None when int() raises ValueError
IntParse(s) == IntOfStripped(strip(s))

\* index of the first "." of b, or 0
DotAt(b) ==
    IF \E i \in 1..Len(b) : b[i] = "."
    THEN CHOOSE i \in 1..Len(b) : b[i] = "." /\ \A j \in 1..(i - 1) : b[j] # "."
    ELSE 0

\* the text before the "." at index d (all of b when d = 0)
BeforeDot(b, d) == IF d = 0 THEN b ELSE SubSeq(b, 1, d - 1)

\* the text after the "." at index d (empty when d = 0)
AfterDot(b, d) == IF d = 0 THEN << >> ELSE SubSeq(b, d + 1, Len(b))

\* a decimal literal with integer part ip and fraction part fp: digits on at
\* least one side of the point
DecimalOf(neg, ip, fp) ==
    IF /\ (ip = << >> \/ DigitPart(ip))
       /\ (fp = << >> \/ DigitPart(fp))
       /\ ~(ip = << >> /\ fp = << >>)
    THEN [kind |-> "finite", trunc |-> Signed(neg, DigitsValue(ip, 0))]
    ELSE [kind |-> "error"]

\* float() of the unsigned body b of a stripped text
FloatOfBody(neg, b) ==
    IF Lower(b) \in {<<"i","n","f">>, <<"i","n","f","i","n","i","t","y">>}
    THEN [kind |-> "inf"]
    ELSE IF Lower(b) = <<"n","a","n">>
    THEN [kind |-> "nan"]
    ELSE DecimalOf(neg, BeforeDot(b, DotAt(b)), AfterDot(b, DotAt(b)))

FloatOfStripped(t) == FloatOfBody(Negative(t), Unsigned(t))

\* float(text), classified: "error" when float() raises ValueError, "inf",
\* "nan", or "finite" with trunc = int(float(text)).  Exponent notation is
\* outside NumAlphabet and is not recognised here.
FloatParse(s) == FloatOfStripped(strip(s))

(* -------------------------- clean_numeric ------------------------------ *)
\* int(float(value)) with except ValueError: float()'s ValueError and
\* int(nan)'s ValueError give default; int(inf)'s OverflowError is not a
\* ValueError and leaves clean_numeric
IntOfFloat(f, default) ==
    CASE f.kind = "error"  -> Return(default)
      [] f.kind = "nan"    -> Return(default)
      [] f.kind = "inf"    -> Raise("OverflowError")
      [] f.kind = "finite" -> Return(f.trunc)

\* int(value), and on ValueError int(float(value))
IntThenFloat(i, f, default) ==
    IF ~IsNone(i) THEN Return(Val(i)) ELSE IntOfFloat(f, default)

clean_numeric(value, default) ==
    IF IsNone(value) \/ strip(Val(value)) = << >>
    THEN Return(default)
    ELSE IntThenFloat(IntParse(Val(value)), FloatParse(Val(value)), default)

(* -------------------------- parse_vehicle_location --------------------- *)
RECURSIVE SkipDigits(_, _)
\* first index at or after i that does not hold a digit (\d*)
SkipDigits(s, i) ==
    IF i <= Len(s) /\ s[i] \in Digits THEN SkipDigits(s, i + 1) ELSE i

\* \.?\d* from index b on: the index just past it
FractionEnd(s, b) ==
    SkipDigits(s, IF b <= Len(s) /\ s[b] = "." THEN b + 1 ELSE b)

\* \d+\.?\d* from index a on: the index just past it, or 0 without a digit
DigitsEnd(s, a, b) == IF b = a THEN 0 ELSE FractionEnd(s, b)

\* -? from index i on: the index just past it
SignEnd(s, i) == IF i <= Len(s) /\ s[i] = "-" THEN i + 1 ELSE i

\* index just past the greedy match of -?\d+\.?\d* that starts at i, or 0
\* when no digit follows the optional sign.  The pattern continues with a
\* literal " " or ")", which no shorter match of the group can expose, so
\* the greedy match decides.
NumberEnd(s, i) == DigitsEnd(s, SignEnd(s, i), SkipDigits(s, SignEnd(s, i)))

RECURSIVE TrimZeros(_)
TrimZeros(f) ==
    IF f # << >> /\ f[Len(f)] = "0" THEN TrimZeros(SubSeq(f, 1, Len(f) - 1)) ELSE f

\* float() of neg and the unsigned text b of a matched group
FloatOfDigits(neg, b) ==
    [neg |-> neg,
     int |-> DigitsValue(BeforeDot(b, DotAt(b)), 0),
     frac |-> TrimZeros(AfterDot(b, DotAt(b)))]

\* float(g) for a text g matched by -?\d+\.?\d*, as sign, integer part and
\* fraction digits (exact for texts within double precision)
ToFloat(g) == FloatOfDigits(Negative(g), IF Negative(g) THEN Tail(g) ELSE g)

PointPrefix == <<"P","O","I","N","T"," ","(">>

\* the match of the pattern on s, whose first group ends before e1 and
\* whose second group ends before e2
MatchPoint(s, e1, e2) ==
    IF /\ StartsWith(s, PointPrefix)
       /\ e1 # 0 /\ e1 <= Len(s) /\ s[e1] = " "
       /\ e2 # 0 /\ e2 <= Len(s) /\ s[e2] = ")"
    THEN <<Some(ToFloat(SubSeq(s, e1 + 1, e2 - 1))),
           Some(ToFloat(SubSeq(s, Len(PointPrefix) + 1, e1 - 1)))>>
    ELSE <<None, None>>

\* the end of the second group, which starts after the " " at e1
SecondEnd(s, e1) == NumberEnd(s, e1 + 1)

MatchFrom(s, e1) == MatchPoint(s, e1, SecondEnd(s, e1))

\* the pair <<latitude, longitude>>; re.match anchors at the start of the
\* unstripped text and ignores what follows the closing parenthesis
parse_vehicle_location(location_str) ==
    IF IsNone(location_str) \/ strip(Val(location_str)) = << >>
    THEN <<None, None>>
    ELSE MatchFrom(Val(location_str), NumberEnd(Val(location_str), Len(PointPrefix) + 1))

(* -------------------------- clean_row ---------------------------------- *)
\* dict.get(key): None for a missing key
Get(row, key) == IF key \in DOMAIN row THEN row[key] ELSE None

\* truth value of an optional text (None and '' are falsy)
Truthy(o) == ~IsNone(o) /\ Val(o) # << >>

BevText == <<"B","a","t","t","e","r","y"," ","E","l","e","c","t","r","i","c"," ","V","e","h","i","c","l","e">>

EligibleText == <<"E","l","i","g","i","b","l","e">>

NotEligibleText == <<"N","o","t"," ","e","l","i","g","i","b","l","e">>

\* cleaned['is_bev']
IsBev(ev_type) ==
    IF Truthy(ev_type) THEN Some(Contains(Val(ev_type), BevText)) ELSE None

\* cleaned['range_category']
RangeCategory(electric_range) ==
    IF electric_range = 0 THEN "Unknown"
    ELSE IF electric_range < 100 THEN "Short Range"
    ELSE IF electric_range < 200 THEN "Medium Range"
    ELSE "Long Range"

\* IsCafvEligible with the "Not eligible" test dropped from the first branch
IsCafvEligible_EligibleFirst(cafv) ==
    IF Truthy(cafv)
    THEN IF Contains(Val(cafv), EligibleText)
         THEN Some(TRUE)
         ELSE IF Contains(Val(cafv), NotEligibleText)
         THEN Some(FALSE)
         ELSE None
    ELSE None

\* cleaned['is_cafv_eligible']
IsCafvEligible(cafv) ==
    IF Truthy(cafv)
    THEN IF Contains(Val(cafv), EligibleText) /\ ~Contains(Val(cafv), NotEligibleText)
         THEN Some(TRUE)
         ELSE IF Contains(Val(cafv), NotEligibleText)
         THEN Some(FALSE)
         ELSE None
    ELSE None

\* the numeric fields in the order clean_row converts them
NumericKeys == <<"Model Year", "Electric Range", "Base MSRP",
                 "Legislative District", "DOL Vehicle ID">>

\* the text fields: cleaned name |-> source column
StringKeys ==
    [vin |-> "VIN (1-10)", county |-> "County", city |-> "City",
     state |-> "State", postal_code |-> "Postal Code", make |-> "Make",
     model |-> "Model", electric_vehicle_type |-> "Electric Vehicle Type",
     cafv_eligibility |-> "Clean Alternative Fuel Vehicle (CAFV) Eligibility",
     electric_utility |-> "Electric Utility", census_tract |-> "2020 Census Tract"]

\* the cleaned record from the converted text fields, numbers and location
Cleaned(str, num, loc) ==
    str @@
    [model_year |-> num[1].val,
     electric_range |-> num[2].val,
     base_msrp |-> num[3].val,
     legislative_district |-> num[4].val,
     dol_vehicle_id |-> num[5].val,
     latitude |-> loc[1],
     longitude |-> loc[2],
     is_bev |-> IsBev(str.electric_vehicle_type),
     range_category |-> RangeCategory(num[2].val),
     is_cafv_eligible |-> IsCafvEligible(str.cafv_eligibility)]

\* the outcome of clean_row given the outcomes of its numeric conversions
CleanedOrRaise(str, num, loc) ==
    IF \E i \in 1..Len(num) : ~num[i].ok
    THEN num[CHOOSE i \in 1..Len(num) :
                ~num[i].ok /\ \A j \in 1..(i - 1) : num[j].ok]
    ELSE Return(Cleaned(str, num, loc))

\* Return(cleaned record), or the first exception a conversion raises
clean_row(row) ==
    CleanedOrRaise(
        [f \in DOMAIN StringKeys |-> clean_string(Get(row, StringKeys[f]))],
        [i \in 1..Len(NumericKeys) |-> clean_numeric(Get(row, NumericKeys[i]), 0)],
        parse_vehicle_location(Get(row, "Vehicle Location")))

(* -------------------------- is_valid_row ------------------------------- *)
\* is_valid_row without the vin test
is_valid_row_NoVin(cleaned_row) ==
    /\ ~IsNone(cleaned_row.make)
    /\ ~IsNone(cleaned_row.model)

is_valid_row(cleaned_row) ==
    /\ ~IsNone(cleaned_row.vin)
    /\ ~IsNone(cleaned_row.make)
    /\ ~IsNone(cleaned_row.model)

(* -------------------------- input rows --------------------------------- *)
\* Rows as csv.DictReader yields them: every header name is a key, the value
\* is the field's text, or None for a field missing from a short line.
CafvKey == "Clean Alternative Fuel Vehicle (CAFV) Eligibility"

\* a fully populated battery-electric row
FullRow ==
    ("VIN (1-10)" :> Some(<<"5","Y","J","3","E","1","E","A","0","K">>))
    @@ ("County" :> Some(<<"K","i","n","g">>))
    @@ ("City" :> Some(<<"S","e","a","t","t","l","e">>))
    @@ ("State" :> Some(<<"W","A">>))
    @@ ("Postal Code" :> Some(<<"9","8","1","0","3">>))
    @@ ("Model Year" :> Some(<<"2","0","1","9">>))
    @@ ("Make" :> Some(<<"T","E","S","L","A">>))
    @@ ("Model" :> Some(<<"M","O","D","E","L"," ","3">>))
    @@ ("Electric Vehicle Type" :> Some(<<"B","a","t","t","e","r","y"," ","E","l","e","c","t","r","i","c"," ","V","e","h","i","c","l","e"," ","(","B","E","V",")">>))
    @@ ("Clean Alternative Fuel Vehicle (CAFV) Eligibility" :> Some(<<"C","l","e","a","n"," ","A","l","t","e","r","n","a","t","i","v","e"," ","F","u","e","l"," ","V","e","h","i","c","l","e"," ","E","l","i","g","i","b","l","e">>))
    @@ ("Electric Range" :> Some(<<"2","2","0">>))
    @@ ("Base MSRP" :> Some(<<"0">>))
    @@ ("Legislative District" :> Some(<<"4","3">>))
    @@ ("DOL Vehicle ID" :> Some(<<"1","5","9","3","7","2","1">>))
    @@ ("Vehicle Location" :> Some(<<"P","O","I","N","T"," ","(","-","1","2","2",".","3","4","3","0","1"," ","4","7",".","6","5","9","1","8","5",")">>))
    @@ ("Electric Utility" :> Some(<<"C","I","T","Y"," ","O","F"," ","S","E","A","T","T","L","E"," ","-"," ","(","W","A",")">>))
    @@ ("2020 Census Tract" :> Some(<<"5","3","0","3","3","0","0","5","0","0","0">>))

\* VIN blank, every other field populated
NoVinRow == [FullRow EXCEPT !["VIN (1-10)"] = Some(<<" ", " ">>)]

\* Make blank
NoMakeRow == [FullRow EXCEPT !["Make"] = Some(<< >>)]

\* a line that ends after the Make column: the later fields are None
ShortRow ==
    [k \in DOMAIN FullRow |->
        IF k \in {"VIN (1-10)", "County", "City", "State", "Postal Code",
                  "Model Year", "Make"}
        THEN FullRow[k] ELSE None]

\* a plug-in hybrid with decimal and padded numbers and no location
PhevRow ==
    [FullRow EXCEPT
        !["Model Year"] = Some(<<"2","0","2","0",".","0">>),
        !["Electric Vehicle Type"] = Some(<<"P","l","u","g","-","i","n"," ","H","y","b","r","i","d"," ","E","l","e","c","t","r","i","c"," ","V","e","h","i","c","l","e"," ","(","P","H","E","V",")">>),
        ![CafvKey] = Some(<<"N","o","t"," ","e","l","i","g","i","b","l","e"," ","d","u","e"," ","t","o"," ","l","o","w"," ","b","a","t","t","e","r","y"," ","r","a","n","g","e">>),
        !["Electric Range"] = Some(<<" ","2","5"," ">>),
        !["Base MSRP"] = Some(<<"n","a","n">>),
        !["Vehicle Location"] = Some(<< >>)]

\* VIN, Make and Model populated, Model Year is the text "inf"
InfYearRow == [FullRow EXCEPT !["Model Year"] = Some(<<"i", "n", "f">>)]

RowPool == {FullRow, NoVinRow, NoMakeRow, ShortRow, PhevRow, InfYearRow}

\* the sources run_producer is run over
Sources == UNION {[1..n -> RowPool] : n \in 0..MaxRows}

\* characters of the raw texts handed to clean_numeric
NumAlphabet == {"0", "1", "7", ".", "-", "+", " ", "_", "i", "n", "f", "a"}

NumTexts == UNION {[1..n -> NumAlphabet] : n \in 0..MaxNumLen}

NumDefaults == {0, 5}

\* fragments the raw CAFV texts are assembled from
CafvFragments ==
    {EligibleText, NotEligibleText, <<"e","l","i","g","i","b","l","e">>,
     <<"N","o","t"," ">>, <<" ">>, <<"U","n","k","n","o","w","n">>}

RECURSIVE Flatten(_)
Flatten(p) == IF p = << >> THEN << >> ELSE Head(p) \o Flatten(Tail(p))

CafvTexts == {Flatten(p) : p \in UNION {[1..n -> CafvFragments] : n \in 0..MaxParts}}

(* -------------------------- run_producer ------------------------------- *)
\* count % 100 == 0 triggers a progress print
ProgressEvery == 100

OutLine(kind, args) == [kind |-> kind, args |-> args]

\* a call on the KafkaProducer; row is the source position of the record a
\* send carries (0 for flush and close), ok is FALSE when the call raised
SinkCall(op, row, arg, ok) == [op |-> op, row |-> row, arg |-> arg, ok |-> ok]

\* the state of the pure-function harnesses while the pipeline runs
HarnessIdle == numArg = None /\ numRes = None /\ rowArg = None /\ rowRes = None

\* the producer is constructed and the starting banner printed; count and
\* skipped are not bound yet
Init ==
    /\ source \in Sources
    /\ pc = "open"
    /\ pos = 0
    /\ count = None
    /\ skipped = None
    /\ calls = << >>
    /\ out = <<OutLine("starting", << >>)>>
    /\ exc = None
    /\ HarnessIdle

\* open() succeeds, the reader is built, count = 0 and skipped = 0
OpenOk ==
    /\ pc = "open"
    /\ pc' = "loop"
    /\ count' = Some(0)
    /\ skipped' = Some(0)
    /\ UNCHANGED <<source, pos, calls, out, exc, numArg, numRes, rowArg, rowRes>>

\* open() raises FileNotFoundError
OpenNotFound ==
    /\ pc = "open"
    /\ pc' = "except_fnf"
    /\ exc' = Some("FileNotFoundError")
    /\ UNCHANGED <<source, pos, count, skipped, calls, out, numArg, numRes, rowArg, rowRes>>

\* open() raises another error (PermissionError, UnicodeError, ...)
OpenFails ==
    /\ pc = "open"
    /\ pc' = "except_exc"
    /\ exc' = Some("PermissionError")
    /\ UNCHANGED <<source, pos, count, skipped, calls, out, numArg, numRes, rowArg, rowRes>>

\* one iteration: clean_row raises, the exception leaves the loop
CleanRaises ==
    /\ pc = "loop" /\ pos < Len(source)
    /\ ~clean_row(source[pos + 1]).ok
    /\ pos' = pos + 1
    /\ pc' = "except_exc"
    /\ exc' = Some(clean_row(source[pos + 1]).exc)
    /\ UNCHANGED <<source, count, skipped, calls, out, numArg, numRes, rowArg, rowRes>>

\* SkipRow without skipped += 1
SkipRow_NoCount ==
    /\ pc = "loop" /\ pos < Len(source)
    /\ clean_row(source[pos + 1]).ok
    /\ ~is_valid_row(clean_row(source[pos + 1]).val)
    /\ pos' = pos + 1
    /\ UNCHANGED <<source, pc, count, skipped, calls, out, exc, numArg, numRes, rowArg, rowRes>>

\* one iteration: the row is invalid, skipped += 1 and continue
SkipRow ==
    /\ pc = "loop" /\ pos < Len(source)
    /\ clean_row(source[pos + 1]).ok
    /\ ~is_valid_row(clean_row(source[pos + 1]).val)
    /\ pos' = pos + 1
    /\ skipped' = Some(Val(skipped) + 1)
    /\ UNCHANGED <<source, pc, count, calls, out, exc, numArg, numRes, rowArg, rowRes>>

\* one iteration: the row is valid, send returns, count += 1 and the
\* progress line is printed on every ProgressEvery-th record
SendRow ==
    /\ pc = "loop" /\ pos < Len(source)
    /\ clean_row(source[pos + 1]).ok
    /\ is_valid_row(clean_row(source[pos + 1]).val)
    /\ LET cleaned_row == clean_row(source[pos + 1]).val
       IN  /\ calls' = Append(calls, SinkCall("send", pos + 1, cleaned_row, TRUE))
           /\ count' = Some(Val(count) + 1)
           /\ out' = IF (Val(count) + 1) % ProgressEvery = 0
                     THEN Append(out, OutLine("sent", <<Val(count) + 1, cleaned_row.make,
                                                      cleaned_row.model, cleaned_row.city>>))
                     ELSE out
    /\ pos' = pos + 1
    /\ UNCHANGED <<source, pc, skipped, exc, numArg, numRes, rowArg, rowRes>>

\* one iteration: the row is valid and send raises; count is not incremented
SendFails ==
    /\ pc = "loop" /\ pos < Len(source)
    /\ clean_row(source[pos + 1]).ok
    /\ is_valid_row(clean_row(source[pos + 1]).val)
    /\ calls' = Append(calls, SinkCall("send", pos + 1, clean_row(source[pos + 1]).val, FALSE))
    /\ pos' = pos + 1
    /\ pc' = "except_exc"
    /\ exc' = Some("KafkaTimeoutError")
    /\ UNCHANGED <<source, count, skipped, out, numArg, numRes, rowArg, rowRes>>

\* Exhausted without the flush call
Exhausted_NoFlush ==
    /\ pc = "loop" /\ pos = Len(source)
    /\ pc' = "report"
    /\ UNCHANGED <<source, pos, count, skipped, calls, out, exc, numArg, numRes, rowArg, rowRes>>

\* the reader is exhausted: the for loop and the with block end
Exhausted ==
    /\ pc = "loop" /\ pos = Len(source)
    /\ pc' = "flush"
    /\ UNCHANGED <<source, pos, count, skipped, calls, out, exc, numArg, numRes, rowArg, rowRes>>

\* producer.flush() returns
FlushOk ==
    /\ pc = "flush"
    /\ calls' = Append(calls, SinkCall("flush", 0, << >>, TRUE))
    /\ pc' = "report"
    /\ UNCHANGED <<source, pos, count, skipped, out, exc, numArg, numRes, rowArg, rowRes>>

\* producer.flush() raises
FlushFails ==
    /\ pc = "flush"
    /\ calls' = Append(calls, SinkCall("flush", 0, << >>, FALSE))
    /\ pc' = "except_exc"
    /\ exc' = Some("KafkaTimeoutError")
    /\ UNCHANGED <<source, pos, count, skipped, out, numArg, numRes, rowArg, rowRes>>

\* the "Finished!" line with count and skipped
Report ==
    /\ pc = "report"
    /\ out' = Append(out, OutLine("finished", <<Val(count), Val(skipped)>>))
    /\ pc' = "finally"
    /\ UNCHANGED <<source, pos, count, skipped, calls, exc, numArg, numRes, rowArg, rowRes>>

\* except FileNotFoundError: two lines, no counts
ExceptFileNotFound ==
    /\ pc = "except_fnf"
    /\ out' = out \o <<OutLine("not_found", << >>), OutLine("hint", << >>)>>
    /\ exc' = None
    /\ pc' = "finally"
    /\ UNCHANGED <<source, pos, count, skipped, calls, numArg, numRes, rowArg, rowRes>>

\* except Exception as e: one line naming the exception, no counts
ExceptException ==
    /\ pc = "except_exc"
    /\ out' = Append(out, OutLine("unexpected", <<Val(exc)>>))
    /\ exc' = None
    /\ pc' = "finally"
    /\ UNCHANGED <<source, pos, count, skipped, calls, numArg, numRes, rowArg, rowRes>>

\* Finally without the close call
Finally_NoClose ==
    /\ pc = "finally"
    /\ pc' = "done"
    /\ UNCHANGED <<source, pos, count, skipped, calls, out, exc, numArg, numRes, rowArg, rowRes>>

\* finally: producer.close()
Finally ==
    /\ pc = "finally"
    /\ calls' = Append(calls, SinkCall("close", 0, << >>, TRUE))
    /\ pc' = "done"
    /\ UNCHANGED <<source, pos, count, skipped, out, exc, numArg, numRes, rowArg, rowRes>>

Next ==
    \/ OpenOk \/ OpenNotFound \/ OpenFails
    \/ CleanRaises \/ SkipRow \/ SendRow \/ SendFails
    \/ Exhausted \/ FlushOk \/ FlushFails \/ Report
    \/ ExceptFileNotFound \/ ExceptException \/ Finally

Spec == Init /\ [][Next]_vars

(* -------------------------- clean_numeric on its own ------------------- *)
PipelineIdle ==
    /\ source = << >> /\ pc = "idle" /\ pos = 0 /\ count = None /\ skipped = None
    /\ calls = << >> /\ out = << >> /\ exc = None

InitNumeric ==
    /\ PipelineIdle
    /\ numArg \in {Some([value |-> v, default |-> d]) :
                     v \in {None} \cup {Some(s) : s \in NumTexts}, d \in NumDefaults}
    /\ numRes = None
    /\ rowArg = None
    /\ rowRes = None

ApplyNumeric ==
    /\ ~IsNone(numArg) /\ IsNone(numRes)
    /\ numRes' = Some(clean_numeric(Val(numArg).value, Val(numArg).default))
    /\ UNCHANGED <<pipeVars, numArg, rowArg, rowRes>>

NextNumeric == ApplyNumeric

SpecNumeric == InitNumeric /\ [][NextNumeric]_vars

(* -------------------------- clean_row on its own ----------------------- *)
InitRow ==
    /\ PipelineIdle
    /\ numArg = None
    /\ numRes = None
    /\ rowArg \in {Some([FullRow EXCEPT ![CafvKey] = v]) :
                     v \in {None} \cup {Some(s) : s \in CafvTexts}}
    /\ rowRes = None

ApplyCleanRow ==
    /\ ~IsNone(rowArg) /\ IsNone(rowRes)
    /\ rowRes' = Some(clean_row(Val(rowArg)))
    /\ UNCHANGED <<pipeVars, numArg, numRes, rowArg>>

NextRow == ApplyCleanRow

SpecRow == InitRow /\ [][NextRow]_vars

(* -------------------------- properties --------------------------------- *)
IsSend(c) == c.op = "send"

\* the send calls made so far, in call order
SendCalls == SelectSeq(calls, IsSend)

\* positions of the "Finished!" line in the output
FinishedLines == {i \in 1..Len(out) : out[i].kind = "finished"}

\* an exception handler has run
HandlerRan == \E i \in 1..Len(out) : out[i].kind \in {"not_found", "unexpected"}

\* rows among the first n for which clean_row returned
CleanedRows(n) == {j \in 1..n : clean_row(source[j]).ok}

\* rows among the first n for which clean_row raised
RaisingRows(n) == {j \in 1..n : ~clean_row(source[j]).ok}

\* rows among the first n for which is_valid_row was false
InvalidRows(n) == {j \in CleanedRows(n) : ~is_valid_row(clean_row(source[j]).val)}

\* the raw value of a column is neither absent nor blank after trimming
RawPresent(row, key) ==
    /\ key \in DOMAIN row
    /\ row[key] # None
    /\ \E i \in 1..Len(row[key][1]) : row[key][1][i] \notin Whitespace

AllThreePresent(row) ==
    RawPresent(row, "VIN (1-10)") /\ RawPresent(row, "Make") /\ RawPresent(row, "Model")

\* rows handed to producer.send so far
SentRows == {calls[k].row : k \in {i \in 1..Len(calls) : calls[i].op = "send"}}

\* C1: while no exception has occurred, after every completed iteration
\* count + skipped is the number of rows consumed, count is the number of
\* send calls and skipped the number of rows is_valid_row rejected; the
\* "Finished!" line reports count + skipped = N with the same two meanings.
C1_CountersExact ==
    /\ pc \in {"loop", "flush", "report"} =>
          /\ Val(count) + Val(skipped) = pos
          /\ Val(count) = Len(SendCalls)
          /\ Val(skipped) = Cardinality(InvalidRows(pos))
    /\ pc \in {"flush", "report"} => pos = Len(source)
    /\ \A i \in FinishedLines :
          /\ out[i].args[1] + out[i].args[2] = Len(source)
          /\ out[i].args[1] = Len(SendCalls)
          /\ out[i].args[2] = Cardinality(InvalidRows(Len(source)))

\* a completed run that both published and skipped
C1_Witness ==
    \E i \in FinishedLines : out[i].args[1] >= 1 /\ out[i].args[2] >= 1

\* C2 as claimed: when the run ends, the records handed to send are the
\* cleaned source records at strictly increasing positions, and exactly
\* `skipped` of the N source records were not handed over.
C2_SubsequenceOmitsSkipped ==
    (pc = "done" /\ ~IsNone(count)) =>
        /\ \A k \in 1..Len(SendCalls) :
              /\ SendCalls[k].row \in 1..Len(source)
              /\ clean_row(source[SendCalls[k].row]).ok
              /\ SendCalls[k].arg = clean_row(source[SendCalls[k].row]).val
              /\ k > 1 => SendCalls[k - 1].row < SendCalls[k].row
        /\ Len(source) - Len(SendCalls) = Val(skipped)

\* C3: every record passed to send has vin, make and model present; of the
\* rows that reached the gate (clean_row returned) exactly those with all
\* three raw values present were handed to send, and each of the others,
\* a row without vin among them, was counted in skipped and never sent.
C3_GateDecides ==
    /\ \A k \in 1..Len(calls) :
          calls[k].op = "send" =>
              /\ ~IsNone(calls[k].arg.vin)
              /\ ~IsNone(calls[k].arg.make)
              /\ ~IsNone(calls[k].arg.model)
              /\ AllThreePresent(source[calls[k].row])
    /\ \A j \in CleanedRows(pos) : (j \in SentRows) <=> AllThreePresent(source[j])
    /\ \A j \in 1..Len(source) :
          ~RawPresent(source[j], "VIN (1-10)") => j \notin SentRows
    /\ ~IsNone(skipped) =>
          Val(skipped) = Cardinality({j \in CleanedRows(pos) : ~AllThreePresent(source[j])})

\* a row without vin and with every other field populated went through the
\* gate after a record had been sent
C3_Witness ==
    /\ pos >= 2 /\ source[pos] = NoVinRow
    /\ pc = "loop"
    /\ Len(SendCalls) >= 1
    /\ Val(skipped) >= 1

\* C4 as claimed: a run in which the source opened and the sink never
\* failed consumes every row, and counts each row whose normalization
\* raised as skipped.
C4_BadRecordSkipped ==
    (pc = "done" /\ ~IsNone(count) /\ \A k \in 1..Len(calls) : calls[k].ok) =>
        /\ pos = Len(source)
        /\ Val(skipped) = Cardinality(InvalidRows(Len(source)))
                            + Cardinality(RaisingRows(Len(source)))

\* C5 as claimed: after a send raised, every later row is still processed
\* (here for sources all of whose rows normalize without raising).
C5_SendFailureContinues ==
    (/\ pc = "done"
     /\ RaisingRows(Len(source)) = {}
     /\ \E k \in 1..Len(calls) : calls[k].op = "send" /\ ~calls[k].ok)
    => pos = Len(source)

\* C6: the "Finished!" line is printed only after flush has returned, flush
\* comes after the last send, and no send lies between flush and the line.
C6_FlushBeforeReport ==
    /\ pc = "report" =>
          /\ Len(calls) >= 1
          /\ calls[Len(calls)].op = "flush"
          /\ calls[Len(calls)].ok
    /\ FinishedLines # {} =>
          \E k \in 1..Len(calls) :
              /\ calls[k].op = "flush" /\ calls[k].ok
              /\ \A j \in 1..Len(calls) : calls[j].op = "send" => j < k

\* the report was printed in a run that sent a record
C6_Witness == FinishedLines # {} /\ Len(SendCalls) >= 1

\* C7 as claimed: every terminated run has printed a summary carrying the
\* published and the skipped count.
C7_SummaryOnEveryExit ==
    pc = "done" =>
        \E i \in 1..Len(out) :
            /\ out[i].kind = "finished"
            /\ out[i].args[1] = Cardinality({k \in 1..Len(SendCalls) : SendCalls[k].ok})

\* C8 as claimed: clean_numeric never raises; it returns an integer, and
\* default when the text is not an integer and has no integer value.
C8_NeverRaises ==
    ~IsNone(numRes) =>
        /\ Val(numRes).ok
        /\ Val(numRes).val \in Int
        /\ (\/ IsNone(Val(numArg).value)
            \/ /\ IsNone(IntParse(Val(numArg).value[1]))
               /\ FloatParse(Val(numArg).value[1]).kind # "finite")
           => Val(numRes).val = Val(numArg).default

\* C9: is_cafv_eligible is absent when cafv_eligibility is absent; otherwise
\* true iff the text contains "Eligible" and not "Not eligible", false iff it
\* contains "Not eligible", and absent iff it contains neither.
C9_CafvEligibility ==
    ~IsNone(rowRes) =>
        /\ Val(rowRes).ok
        /\ LET c == Val(rowRes).val
           IN  IF IsNone(c.cafv_eligibility)
               THEN IsNone(c.is_cafv_eligible)
               ELSE /\ (c.is_cafv_eligible = Some(TRUE)) <=>
                          (/\ Contains(c.cafv_eligibility[1], EligibleText)
                           /\ ~Contains(c.cafv_eligibility[1], NotEligibleText))
                    /\ (c.is_cafv_eligible = Some(FALSE)) <=>
                          Contains(c.cafv_eligibility[1], NotEligibleText)
                    /\ IsNone(c.is_cafv_eligible) <=>
                          (/\ ~Contains(c.cafv_eligibility[1], EligibleText)
                           /\ ~Contains(c.cafv_eligibility[1], NotEligibleText))

\* a text with both "Eligible" and "Not eligible" was classified false
C9_Witness ==
    /\ ~IsNone(rowRes)
    /\ ~IsNone(Val(rowRes).val.cafv_eligibility)
    /\ Contains(Val(rowRes).val.cafv_eligibility[1], EligibleText)
    /\ Contains(Val(rowRes).val.cafv_eligibility[1], NotEligibleText)
    /\ Val(rowRes).val.is_cafv_eligible = Some(FALSE)

\* number of close calls made so far
CloseCalls == Cardinality({k \in 1..Len(calls) : calls[k].op = "close"})

\* close is called exactly once by the time the run ends, never earlier,
\* and nothing is called on the producer after it
ClosedOnceAndLast ==
    /\ pc = "done" => CloseCalls = 1 /\ calls[Len(calls)].op = "close"
    /\ pc # "done" => CloseCalls = 0

\* C10 as claimed: close exactly once and last, and on the exception paths
\* flush is not called before close.
C10_NoFlushOnExceptionPaths ==
    /\ ClosedOnceAndLast
    /\ HandlerRan => \A k \in 1..Len(calls) : calls[k].op # "flush"

\* C10 amended: close exactly once and last; on the exception paths no flush
\* call has returned before close, and a flush call is made there only when
\* flush itself is the call that raised, directly before close.
C10_CloseOnceNoCompletedFlush ==
    /\ ClosedOnceAndLast
    /\ HandlerRan =>
          \A k \in 1..Len(calls) :
              calls[k].op = "flush" =>
                  /\ ~calls[k].ok
                  /\ \A j \in (k + 1)..Len(calls) : calls[j].op = "close"
    /\ \A k \in 1..Len(calls) : \A j \in (k + 1)..Len(calls) :
          calls[k].op = "close" => calls[j].op \notin {"send", "flush"}

\* a run closed after an exception raised in the loop, with no flush call
C10_Witness ==
    /\ pc = "done"
    /\ HandlerRan
    /\ Len(SendCalls) >= 1
    /\ \A k \in 1..Len(calls) : calls[k].op # "flush"

====
